---- MODULE Spec2Model ----
(***************************************************************************)
(* A model of the surrogate-model base class SM (smt/sm.py) and of the     *)
(* result cache helpers (smt/utils/caching.py).                            *)
(*                                                                         *)
(* Python values are modelled as follows.                                  *)
(*   None          the empty tuple <<>>; a present optional value v is <<v>>*)
(*   2-D ndarray   a record [shape |-> <<rows, cols>>, data |-> rows]       *)
(*   dict          a function whose DOMAIN is the set of keys              *)
(*   list [a, b]   the tuple <<a, b>> (Python index i is TLA+ index i+1)    *)
(*   exception     ret.exc names its type ("" when the call returned)      *)
(***************************************************************************)
EXTENDS Integers, Sequences, FiniteSets, TLC

(***************************************************************************)
(* Bounds of the model.                                                    *)
(***************************************************************************)
\* The number of successful add_training_pts calls of one run.
MaxCalls == 2
\* The largest derivative index kx a caller passes.
MaxKx == 1
\* The number of successful add_training_pts calls of a run that trains and
\* evaluates.
MaxTrainingCalls == 1
\* The number of _caching_save calls a writer process starts.
MaxSaves == 2

None == <<>>
Some(v) == <<v>>

\* The scalar values of array entries.
Scalars == {0, 1}

\* ndarray of shape (Len(rows), d) holding the given rows.
Array(rows, d) == [shape |-> <<Len(rows), d>>, data |-> rows]

\* The X arguments of the callers: 2-D arrays, among them an array with no
\* row, two one-column rows that differ, and a two-column array.
XArgs ==
    { Array(<<>>, 1), Array(<< <<0>> >>, 1), Array(<< <<1>> >>, 1),
      Array(<< <<0, 1>> >>, 2) }

\* The Y arguments of the callers, as the flat sequence of their values
\* (their incoming shape is free, only their size matters to reshape).
YArgs == { <<>>, <<0>>, <<1>>, <<0, 1>> }

\* The derivative index arguments: None or an integer 0..MaxKx.
KxArgs == {None} \cup { Some(k) : k \in 0..MaxKx }

\* The fidelity tags a caller passes; only 'exact' is a key of training_pts.
TypArgs == {"exact", "approx"}

VARIABLES
    sm_options,     \* self.sm_options: dict of model options
    printf_options, \* self.printf_options: dict of reporting toggles
    training_pts,   \* self.training_pts: {'exact': {key: [X, Y]}}
    dim,            \* self.dim, None while the attribute is not set
    nt,             \* self.nt, None while the attribute is not set
    printer,        \* self.printer: None or the Printer's state
    file,           \* the content of the cache file, None while it is missing
    ret,            \* the outcome of the last call
    calls,          \* the arguments of the successful add_training_pts calls
    saved,          \* when a _caching_save of the model's own checksum was
                    \* the last write of the file: its checksum, its data
                    \* and Len(calls) at the time; None otherwise
    writer,         \* a process inside _caching_save: what it has still to
                    \* write, and the save calls it has started
    reader          \* a process inside _caching_load: the checksum it
                    \* expects, its file position and what it has read

vars ==
    <<sm_options, printf_options, training_pts, dim, nt, printer, file, ret,
      calls, saved, writer, reader>>

(***************************************************************************)
(* The outcome of a call.                                                  *)
(***************************************************************************)
NoRet ==
    [op |-> "", exc |-> "", msg |-> "", val |-> "None", hit |-> FALSE,
     data |-> None, checksum |-> "", num |-> 0, den |-> 0, y |-> None,
     evals |-> <<>>, fits |-> 0, xe |-> None, ye |-> None, kx |-> None,
     replaced |-> {}, sm_arg |-> None, printf_arg |-> None]

Returned(op, val) == [NoRet EXCEPT !.op = op, !.val = val]
Raised(op, exc, msg) == [NoRet EXCEPT !.op = op, !.exc = exc, !.msg = msg]

(***************************************************************************)
(* numpy                                                                   *)
(***************************************************************************)
\* yt.reshape((n, 1)) of the flat values yt; defined when Len(yt) = n.
reshape_n1(yt, n) == Array([i \in 1..n |-> <<yt[i]>>], 1)

\* np.vstack([a, b]) raises ValueError unless the column counts agree.
vstack_ok(a, b) == a.shape[2] = b.shape[2]

\* A store that keeps the new rows only.
vstack_replace(a, b) == b

\* np.vstack([a, b]): the rows of a followed by the rows of b.
vstack(a, b) == Array(a.data \o b.data, a.shape[2])

(***************************************************************************)
(* SM.add_training_pts                                                     *)
(***************************************************************************)
\* A key mapping without the shift of the derivative indices.
add_key_unshifted(kx) == IF kx = None THEN 0 ELSE kx[1]

\* The key of training_pts[typ] a derivative index is stored under.
add_key(kx) == IF kx = None THEN 0 ELSE kx[1] + 1

\* An insertion that stores X before it reshapes Y.
add_training_pts_x_first(typ, xt, yt, kx) ==
    LET n == xt.shape[1]
        key == add_key(kx)
    IN  /\ UNCHANGED <<sm_options, printf_options, printer, file, saved,
                       writer, reader>>
        /\ IF Len(yt) # n
           THEN /\ ret' = Raised("add_training_pts", "ValueError", "reshape")
                /\ training_pts' =
                      IF typ \notin DOMAIN training_pts THEN training_pts
                      ELSE IF key \in DOMAIN training_pts[typ]
                      THEN [training_pts EXCEPT ![typ][key][1] =
                               vstack(training_pts[typ][key][1], xt)]
                      ELSE [training_pts EXCEPT ![typ] =
                               (key :> <<xt, reshape_n1(<<>>, 0)>>)
                                  @@ training_pts[typ]]
                /\ UNCHANGED <<dim, nt, calls>>
           ELSE LET yt2 == reshape_n1(yt, n) IN
                /\ dim' = IF kx = None THEN Some(xt.shape[2]) ELSE dim
                /\ nt' = IF kx = None THEN Some(n) ELSE nt
                /\ IF typ \notin DOMAIN training_pts
                   THEN \* line 105: self.training_pts[typ]
                        /\ ret' = Raised("add_training_pts", "KeyError", typ)
                        /\ UNCHANGED <<training_pts, calls>>
                   ELSE LET pts == training_pts[typ] IN
                        IF key \in DOMAIN pts
                        THEN IF ~vstack_ok(pts[key][1], xt)
                             THEN \* line 107: vstack raises before the store
                                  /\ ret' = Raised("add_training_pts",
                                                   "ValueError", "vstack")
                                  /\ UNCHANGED <<training_pts, calls>>
                             ELSE /\ training_pts' =
                                      [training_pts EXCEPT ![typ][key] =
                                          <<vstack(pts[key][1], xt),
                                            vstack(pts[key][2], yt2)>>]
                                  /\ ret' = Returned("add_training_pts", "None")
                                  /\ calls' = Append(calls,
                                        [typ |-> typ, xt |-> xt, yt |-> yt,
                                         kx |-> kx])
                        ELSE /\ training_pts' =
                                 [training_pts EXCEPT ![typ] =
                                     (key :> <<xt, yt2>>) @@ pts]
                             /\ ret' = Returned("add_training_pts", "None")
                             /\ calls' = Append(calls,
                                   [typ |-> typ, xt |-> xt, yt |-> yt,
                                    kx |-> kx])

add_training_pts(typ, xt, yt, kx) ==
    LET n == xt.shape[1]
        key == add_key(kx)
    IN  /\ UNCHANGED <<sm_options, printf_options, printer, file, saved,
                       writer, reader>>
        /\ IF Len(yt) # n
           THEN \* line 95: reshape raises, nothing was assigned yet
                /\ ret' = Raised("add_training_pts", "ValueError", "reshape")
                /\ UNCHANGED <<training_pts, dim, nt, calls>>
           ELSE LET yt2 == reshape_n1(yt, n) IN
                /\ dim' = IF kx = None THEN Some(xt.shape[2]) ELSE dim
                /\ nt' = IF kx = None THEN Some(n) ELSE nt
                /\ IF typ \notin DOMAIN training_pts
                   THEN \* line 105: self.training_pts[typ]
                        /\ ret' = Raised("add_training_pts", "KeyError", typ)
                        /\ UNCHANGED <<training_pts, calls>>
                   ELSE LET pts == training_pts[typ] IN
                        IF key \in DOMAIN pts
                        THEN IF ~vstack_ok(pts[key][1], xt)
                             THEN \* line 107: vstack raises before the store
                                  /\ ret' = Raised("add_training_pts",
                                                   "ValueError", "vstack")
                                  /\ UNCHANGED <<training_pts, calls>>
                             ELSE /\ training_pts' =
                                      [training_pts EXCEPT ![typ][key] =
                                          <<vstack(pts[key][1], xt),
                                            vstack(pts[key][2], yt2)>>]
                                  /\ ret' = Returned("add_training_pts", "None")
                                  /\ calls' = Append(calls,
                                        [typ |-> typ, xt |-> xt, yt |-> yt,
                                         kx |-> kx])
                        ELSE /\ training_pts' =
                                 [training_pts EXCEPT ![typ] =
                                     (key :> <<xt, yt2>>) @@ pts]
                             /\ ret' = Returned("add_training_pts", "None")
                             /\ calls' = Append(calls,
                                   [typ |-> typ, xt |-> xt, yt |-> yt,
                                    kx |-> kx])

(***************************************************************************)
(* The Printer (smt/utils/printer.py) as SM uses it: the flag active and   *)
(* the dict times of the elapsed time of each timed block, by key.         *)
(***************************************************************************)
\* The elapsed times a timed block measures.
Elapsed == {1, 2}

\* printer.times[key] = t, as _timed_context does when its block ends.
set_time(p, key, t) ==
    [p EXCEPT !.times =
        [k \in DOMAIN p.times \cup {key} |->
            IF k = key THEN t ELSE p.times[k]]]

(***************************************************************************)
(* The hooks of the inheriting class: evaluate(x, kx) returns one value    *)
(* per row of x or raises; fit() returns or raises.                        *)
(***************************************************************************)
EvalHooks ==
    {[raises |-> TRUE, v |-> 0]} \cup
    { [raises |-> FALSE, v |-> v] : v \in Scalars }

FitHooks == {[raises |-> TRUE], [raises |-> FALSE]}

\* The array evaluate returns for x: n values.
hook_y(hook, n) == [i \in 1..n |-> hook.v]

(***************************************************************************)
(* SM.predict                                                              *)
(***************************************************************************)
\* A key mapping without the shift of the derivative indices.
predict_key_unshifted(kx) == IF kx = None THEN 0 ELSE kx[1]

\* The key evaluate is called with (lines 169-172).
predict_key(kx) == IF kx = None THEN 0 ELSE kx[1] + 1

\* predict(x, kx) on the instance sm, the evaluate hook behaving as hook
\* and its timed block measuring t: [exc, msg, y, evals, sm], with y the
\* returned (n_evals, 1) array, evals the calls of evaluate (rows of x,
\* key) and sm the instance as the call leaves it.
predict(sm, x, kx, hook, t) ==
    LET n_evals == x.shape[1]
        out(exc, msg, y, evals, sm2) ==
            [exc |-> exc, msg |-> msg, y |-> y, evals |-> evals, sm |-> sm2]
    IN
    IF sm.printer = None
    THEN \* line 158: None has no attribute 'active'
         out("AttributeError", "active", None, <<>>, sm)
    ELSE
    LET active == sm.printf_options["global"] /\ sm.printf_options["time_eval"]
        sm1 == [sm EXCEPT !.printer = Some([sm.printer[1] EXCEPT
                                               !.active = active])]
    IN
    IF "name" \notin DOMAIN sm.sm_options
    THEN out("KeyError", "name", None, <<>>, sm1)
    ELSE
    LET key == predict_key(kx)
        evals == << [x |-> x, kx |-> key] >>
    IN
    IF hook.raises
    THEN \* line 176: the error of evaluate leaves the timed block
         out("AlgorithmError", "evaluate", None, evals, sm1)
    ELSE
    LET sm2 == [sm1 EXCEPT !.printer =
                   Some(set_time(sm1.printer[1], "prediction", t))]
    IN
    IF n_evals = 0
    THEN \* line 178: float division by zero
         out("ZeroDivisionError", "time_pt", None, evals, sm2)
    ELSE out("", "", Some(reshape_n1(hook_y(hook, n_evals), n_evals)),
             evals, sm2)

(***************************************************************************)
(* SM.compute_rms_error                                                    *)
(***************************************************************************)
\* np.linalg.norm(a - b) ** 2 of two (n, 1) arrays.
norm2_diff(a, b) ==
    LET sq(i) == (a.data[i][1] - b.data[i][1]) * (a.data[i][1] - b.data[i][1])
        RECURSIVE sum(_)
        sum(i) == IF i = 0 THEN 0 ELSE sq(i) + sum(i - 1)
    IN  sum(a.shape[1])

\* np.linalg.norm(a) ** 2 of an (n, 1) array.
norm2(a) ==
    LET RECURSIVE sum(_)
        sum(i) == IF i = 0 THEN 0 ELSE a.data[i][1] * a.data[i][1] + sum(i - 1)
    IN  sum(a.shape[1])

\* A self-check without the test of line 68.
has_training_pts_always(sm, kx2) == TRUE

\* kx2 in self.training_pts['exact'] (line 68).
has_training_pts(sm, kx2) == kx2 \in DOMAIN sm.training_pts["exact"]

\* compute_rms_error(xe, ye, kx) on the instance sm: [exc, msg, val, num,
\* den, evals, sm]. val is "float" for a returned error, the square root of
\* num / den, and "None" when the function ends without a return
\* statement. ye is given as an (ne, 1) array with as many rows as xe.
compute_rms_error(sm, xe, ye, kx, hook, t) ==
    LET out(exc, msg, val, num, den, evals, sm2) ==
            [exc |-> exc, msg |-> msg, val |-> val, num |-> num, den |-> den,
             evals |-> evals, sm |-> sm2]
    IN
    IF xe # None /\ ye # None
    THEN LET p == predict(sm, xe[1], kx, hook, t) IN
         IF p.exc # "" THEN out(p.exc, p.msg, "None", 0, 0, p.evals, p.sm)
         ELSE out("", "", "float", norm2_diff(p.y[1], ye[1]), norm2(ye[1]),
                  p.evals, p.sm)
    ELSE IF xe = None /\ ye = None
    THEN IF kx # None
         THEN \* line 67: kx2 += 1 reads kx2 before any assignment
              out("UnboundLocalError", "kx2", "None", 0, 0, <<>>, sm)
         ELSE
         LET kx2 == 0 IN
         IF ~has_training_pts(sm, kx2)
         THEN out("ValueError", "no training point data", "None", 0, 0,
                  <<>>, sm)
         ELSE IF kx2 \notin DOMAIN sm.training_pts["exact"]
         THEN \* line 70: self.training_pts['exact'][kx2]
              out("KeyError", "kx2", "None", 0, 0, <<>>, sm)
         ELSE
         LET xt == sm.training_pts["exact"][kx2][1]
             yt == sm.training_pts["exact"][kx2][2]
             p == predict(sm, xt, kx, hook, t)
         IN  IF p.exc # "" THEN out(p.exc, p.msg, "None", 0, 0, p.evals, p.sm)
             ELSE out("", "", "float", norm2_diff(p.y[1], yt), norm2(yt),
                      p.evals, p.sm)
    ELSE \* neither branch is taken: the function returns None
         out("", "", "None", 0, 0, <<>>, sm)

(***************************************************************************)
(* SM.train                                                                *)
(***************************************************************************)
\* A train that hands its training points over to fit and keeps none.
train_consuming(sm, hook, t) ==
    [exc |-> IF hook.raises THEN "AlgorithmError" ELSE "",
     msg |-> IF hook.raises THEN "fit" ELSE "",
     fits |-> 1,
     sm |-> [sm EXCEPT !.training_pts = [exact |-> <<>>]]]

\* train() on the instance sm: [exc, msg, fits, sm], fits the number of
\* calls of fit.
train(sm, hook, t) ==
    LET out(exc, msg, fits, sm2) ==
            [exc |-> exc, msg |-> msg, fits |-> fits, sm |-> sm2]
    IN
    IF 0 \notin DOMAIN sm.training_pts["exact"]
    THEN \* line 116: self.training_pts['exact'][0]
         out("KeyError", "0", 0, sm)
    ELSE IF sm.printer = None
    THEN out("AttributeError", "active", 0, sm)
    ELSE IF "name" \notin DOMAIN sm.sm_options
    THEN out("KeyError", "name", 0,
             [sm EXCEPT !.printer = Some([sm.printer[1] EXCEPT
                 !.active = sm.printf_options["global"]])])
    ELSE
    LET active == sm.printf_options["global"]
                  /\ sm.printf_options["time_train"]
        sm1 == [sm EXCEPT !.printer = Some([sm.printer[1] EXCEPT
                                               !.active = active])]
    IN  IF hook.raises
        THEN out("AlgorithmError", "fit", 1, sm1)
        ELSE out("", "", 1,
                 [sm1 EXCEPT !.printer =
                     Some(set_time(sm1.printer[1], "", t))])

(***************************************************************************)
(* pickle, protocol 0: a stream is a sequence of opcodes with a text       *)
(* argument. A Python value that is pickled to the cache file is a record  *)
(* [kind, s, items, keys, vals]: a str (s), an int (s, its decimal text), a *)
(* list of ints (items), a dict with str keys (keys, vals), or a function, *)
(* which pickle cannot serialize.                                          *)
(***************************************************************************)
PyVal(kind, s, items, keys, vals) ==
    [kind |-> kind, s |-> s, items |-> items, keys |-> keys, vals |-> vals]
PyStr(s) == PyVal("str", s, <<>>, <<>>, <<>>)
PyInt(i) == PyVal("int", ToString(i), <<>>, <<>>, <<>>)
PyList(ints) == PyVal("list", "", ints, <<>>, <<>>)
PyDict(keys, vals) == PyVal("dict", "", <<>>, keys, vals)
PyFunction == PyVal("function", "<function>", <<>>, <<>>, <<>>)
PyMark == PyVal("mark", "", <<>>, <<>>, <<>>)

Tok(op, arg) == [op |-> op, arg |-> arg]
MARK == Tok("(", "")
DICT == Tok("d", "")
LIST == Tok("l", "")
SETITEM == Tok("s", "")
APPEND == Tok("a", "")
TUPLE == Tok("t", "")
STOP == Tok(".", "")
STR(s) == Tok("S", s)
INTEGER(i) == Tok("I", ToString(i))

\* The integer a decimal text denotes (the texts of the model are those
\* of scalar values).
IntOf(text) == CHOOSE i \in Scalars : ToString(i) = text
IsIntText(text) == \E i \in Scalars : ToString(i) = text

RECURSIVE Flatten(_)
Flatten(seqs) ==
    IF seqs = <<>> THEN <<>> ELSE Head(seqs) \o Flatten(Tail(seqs))

\* Pickler.save of a value that is no dict: [ok, out], out being what was
\* written when the value is reached (nothing for a function, which raises).
save_atom(v) ==
    CASE v.kind = "str" -> [ok |-> TRUE, out |-> <<STR(v.s)>>]
      [] v.kind = "int" -> [ok |-> TRUE, out |-> <<Tok("I", v.s)>>]
      [] v.kind = "list" ->
            [ok |-> TRUE,
             out |-> <<MARK, LIST>> \o
                     Flatten([i \in 1..Len(v.items) |->
                                 <<INTEGER(v.items[i]), APPEND>>])]
      [] OTHER -> [ok |-> FALSE, out |-> <<>>]

\* The opcodes of the items of a dict, in order, up to the first value that
\* cannot be pickled.
RECURSIVE save_items(_, _, _)
save_items(keys, vals, i) ==
    IF i > Len(keys) THEN [ok |-> TRUE, out |-> <<>>]
    ELSE LET a == save_atom(vals[i]) IN
         IF ~a.ok THEN [ok |-> FALSE, out |-> <<STR(keys[i])>>]
         ELSE LET rest == save_items(keys, vals, i + 1) IN
              [ok |-> rest.ok,
               out |-> <<STR(keys[i])>> \o a.out \o <<SETITEM>> \o rest.out]

\* pickle.dump(obj, f): [ok, out]; when ok, out is the whole stream, else
\* PicklingError was raised after out had been written.
pickle_dump(obj) ==
    IF obj.kind = "dict"
    THEN LET items == save_items(obj.keys, obj.vals, 1) IN
         [ok |-> items.ok,
          out |-> <<MARK, DICT>> \o items.out \o
                  (IF items.ok THEN <<STOP>> ELSE <<>>)]
    ELSE LET a == save_atom(obj) IN
         [ok |-> a.ok, out |-> a.out \o (IF a.ok THEN <<STOP>> ELSE <<>>)]

\* The index of the topmost MARK of the unpickler's stack, 0 when none.
RECURSIVE top_mark(_, _)
top_mark(stack, i) ==
    IF i = 0 THEN 0
    ELSE IF stack[i].kind = "mark" THEN i ELSE top_mark(stack, i - 1)

\* Unpickler.load from opcode i on: [ok, value]; any malformed or
\* truncated stream raises (ok = FALSE).
RECURSIVE unpickle(_, _, _)
unpickle(stream, i, stack) ==
    LET fail == [ok |-> FALSE, value |-> PyMark]
        n == Len(stack)
        m == top_mark(stack, n)
    IN
    IF i > Len(stream) THEN fail    \* EOFError
    ELSE
    LET t == stream[i] IN
    CASE t.op = "(" -> unpickle(stream, i + 1, Append(stack, PyMark))
      [] t.op = "S" -> unpickle(stream, i + 1, Append(stack, PyStr(t.arg)))
      [] t.op = "I" ->
            IF IsIntText(t.arg)
            THEN unpickle(stream, i + 1, Append(stack, PyInt(IntOf(t.arg))))
            ELSE fail
      [] t.op = "d" ->
            IF m = 0 \/ (n - m) % 2 # 0
               \/ \E j \in 1..((n - m) \div 2) : stack[m + 2 * j - 1].kind # "str"
            THEN fail
            ELSE unpickle(stream, i + 1,
                    Append(SubSeq(stack, 1, m - 1),
                           PyDict([j \in 1..((n - m) \div 2) |->
                                      stack[m + 2 * j - 1].s],
                                  [j \in 1..((n - m) \div 2) |->
                                      stack[m + 2 * j]])))
      [] t.op = "l" ->
            IF m = 0 \/ \E j \in (m + 1)..n : stack[j].kind # "int"
            THEN fail
            ELSE unpickle(stream, i + 1,
                    Append(SubSeq(stack, 1, m - 1),
                           PyList([j \in 1..(n - m) |->
                                      IntOf(stack[m + j].s)])))
      [] t.op = "s" ->
            IF n < 3 THEN fail
            ELSE IF stack[n - 2].kind # "dict" \/ stack[n - 1].kind # "str"
                    \/ stack[n].kind = "mark"
            THEN fail
            ELSE LET d == stack[n - 2]
                     k == stack[n - 1].s
                     old == { j \in 1..Len(d.keys) : d.keys[j] = k }
                     d2 == IF old = {}
                           THEN PyDict(Append(d.keys, k),
                                       Append(d.vals, stack[n]))
                           ELSE PyDict(d.keys,
                                       [j \in 1..Len(d.vals) |->
                                           IF j \in old THEN stack[n]
                                           ELSE d.vals[j]])
                 IN unpickle(stream, i + 1,
                             Append(SubSeq(stack, 1, n - 3), d2))
      [] t.op = "a" ->
            IF n < 2 THEN fail
            ELSE IF stack[n - 1].kind # "list" \/ stack[n].kind # "int"
            THEN fail
            ELSE unpickle(stream, i + 1,
                    Append(SubSeq(stack, 1, n - 2),
                           PyList(Append(stack[n - 1].items,
                                         IntOf(stack[n].s)))))
      [] t.op = "." ->
            IF n = 0 THEN fail
            ELSE IF stack[n].kind = "mark" THEN fail
            ELSE [ok |-> TRUE, value |-> stack[n]]
      [] OTHER -> fail

\* pickle.load(f) of a file with the given content.
pickle_load(stream) == unpickle(stream, 1, <<>>)

\* d[key] of an unpickled value: [ok, value]; TypeError on a value that is
\* no dict and KeyError on a missing key give ok = FALSE.
getitem(d, key) ==
    IF d.kind # "dict" THEN [ok |-> FALSE, value |-> PyMark]
    ELSE LET at == { j \in 1..Len(d.keys) : d.keys[j] = key } IN
         IF at = {} THEN [ok |-> FALSE, value |-> PyMark]
         ELSE [ok |-> TRUE, value |-> d.vals[CHOOSE j \in at : TRUE]]

(***************************************************************************)
(* smt/utils/caching.py                                                    *)
(***************************************************************************)
\* A load that does not compare the checksums.
checksum_matches_always(checksum, stored) == TRUE

\* checksum == save_pkl['checksum'] (line 29): a str equals only a str.
checksum_matches(checksum, stored) ==
    stored.kind = "str" /\ stored.s = checksum

\* The try block of _caching_load (lines 27-32) on a file of the given
\* content (None when the file is missing): [exc, hit, data], data being
\* None or <<payload>>.
load_try(content, checksum) ==
    LET raise(exc) == [exc |-> exc, hit |-> FALSE, data |-> None] IN
    IF content = None THEN raise("IOError")         \* open
    ELSE LET save_pkl == pickle_load(content[1]) IN
         IF ~save_pkl.ok THEN raise("UnpicklingError")
         ELSE LET stored == getitem(save_pkl.value, "checksum") IN
              IF ~stored.ok THEN raise("KeyError")  \* or TypeError
              ELSE IF checksum_matches(checksum, stored.value)
              THEN LET data == getitem(save_pkl.value, "data") IN
                   IF ~data.ok THEN raise("KeyError")
                   ELSE [exc |-> "", hit |-> TRUE, data |-> Some(data.value)]
              ELSE [exc |-> "", hit |-> FALSE, data |-> None]

\* A load without the except clause.
_caching_load_unguarded(content, checksum) == load_try(content, checksum)

\* _caching_load(filename, checksum): every exception of the try block
\* ends in (False, None) (lines 33-34).
_caching_load(content, checksum) ==
    LET r == load_try(content, checksum) IN
    IF r.exc # "" THEN [exc |-> "", hit |-> FALSE, data |-> None] ELSE r

\* A save that writes the data under another key of the record.
_caching_save_misspelt(checksum, data) ==
    LET save_dict == PyDict(<<"checksum", "state">>, <<PyStr(checksum), data>>)
        dumped == pickle_dump(save_dict)
    IN  [ok |-> dumped.ok, content |-> Some(dumped.out)]

\* A save that opens the file for appending: the record follows what the
\* file held.
_caching_save_append(checksum, data) ==
    LET save_dict == PyDict(<<"checksum", "data">>, <<PyStr(checksum), data>>)
        dumped == pickle_dump(save_dict)
    IN  [ok |-> dumped.ok,
         content |-> Some((IF file = None THEN <<>> ELSE file[1])
                             \o dumped.out)]

\* _caching_save(filename, checksum, data): [ok, content]. open(.., 'w')
\* truncates the file, then pickle.dump writes the record; when the data
\* cannot be pickled the call raises and the file keeps what was written.
_caching_save(checksum, data) ==
    LET save_dict == PyDict(<<"checksum", "data">>, <<PyStr(checksum), data>>)
        dumped == pickle_dump(save_dict)
    IN  [ok |-> dumped.ok, content |-> Some(dumped.out)]

\* The option values pickle cannot serialize.
Unpicklable == {"<function>"}

\* The order in which the keys of the options dict are iterated.
OptionKeys == <<"name", "xlimits">>

\* The elements of a finite set of integers in increasing order.
RECURSIVE sorted(_)
sorted(S) ==
    IF S = {} THEN <<>>
    ELSE LET lo == CHOOSE a \in S : \A b \in S : a <= b
         IN <<lo>> \o sorted(S \ {lo})

NDARRAY(a) == Tok("ndarray", ToString(a))

\* The opcodes of one dict of training points {key: [X, Y]}.
pickle_pts(pts) ==
    <<MARK, DICT>> \o
    Flatten([i \in 1..Cardinality(DOMAIN pts) |->
                LET k == sorted(DOMAIN pts)[i] IN
                <<INTEGER(k), MARK, LIST, NDARRAY(pts[k][1]), APPEND,
                  NDARRAY(pts[k][2]), APPEND, SETITEM>>])

\* pickle.dumps(obj) of the tuple obj = (sm_options, training_pts):
\* [ok, out]; PicklingError (ok = FALSE) when an option value cannot be
\* pickled.
pickle_dumps(obj) ==
    LET opts == obj[1]
        tpts == obj[2]
        keys == SelectSeq(OptionKeys, LAMBDA k : k \in DOMAIN opts)
        ok == \A k \in DOMAIN opts : opts[k] \notin Unpicklable
    IN  [ok |-> ok,
         out |->
            <<MARK, MARK, DICT>> \o
            Flatten([i \in 1..Len(keys) |->
                        <<STR(keys[i]), STR(opts[keys[i]]), SETITEM>>]) \o
            <<MARK, DICT>> \o
            (IF "exact" \in DOMAIN tpts
             THEN <<STR("exact")>> \o pickle_pts(tpts["exact"]) \o <<SETITEM>>
             ELSE <<>>) \o
            <<TUPLE, STOP>>]

\* hashlib.md5(text).hexdigest(), taken to be free of collisions: the
\* digest of a stream is the text of the stream.
md5_hexdigest(stream) == ToString(stream)

\* _caching_checksum(obj): [ok, checksum]; pickle.dumps may raise.
_caching_checksum(obj) ==
    LET self_pkl == pickle_dumps(obj) IN
    [ok |-> self_pkl.ok,
     checksum |-> IF self_pkl.ok THEN md5_hexdigest(self_pkl.out) ELSE ""]

\* The checksum of the whole instance, its printer included.
_caching_checksum_sm_whole(sm) ==
    LET c == _caching_checksum(<<sm.sm_options, sm.training_pts>>) IN
    IF c.ok
    THEN [exc |-> "", sm |-> sm,
          checksum |-> md5_hexdigest(<<c.checksum, ToString(sm.printer)>>)]
    ELSE [exc |-> "PicklingError", checksum |-> "", sm |-> sm]

\* _caching_checksum_sm(sm): [exc, checksum, sm], sm being the instance as
\* the call leaves it. An exception of _caching_checksum leaves line 91
\* unexecuted.
_caching_checksum_sm(sm) ==
    LET tmp == sm.printer
        sm1 == [sm EXCEPT !.printer = None]
        c == _caching_checksum(<<sm1.sm_options, sm1.training_pts>>)
    IN  IF c.ok
        THEN [exc |-> "", checksum |-> c.checksum,
              sm |-> [sm1 EXCEPT !.printer = tmp]]
        ELSE [exc |-> "PicklingError", checksum |-> "", sm |-> sm1]

\* The SM instance.
Self ==
    [sm_options |-> sm_options, printf_options |-> printf_options,
     training_pts |-> training_pts, dim |-> dim, nt |-> nt,
     printer |-> printer]

SetSelf(sm) ==
    /\ sm_options' = sm.sm_options
    /\ printf_options' = sm.printf_options
    /\ training_pts' = sm.training_pts
    /\ dim' = sm.dim
    /\ nt' = sm.nt
    /\ printer' = sm.printer

(***************************************************************************)
(* The calls of the cache helpers.                                         *)
(***************************************************************************)
\* The states a trained model saves: lists of coefficients, and a state
\* holding a function, which pickle cannot serialize.
Payloads == {PyList(<<0>>), PyList(<<1, 0>>), PyFunction}

\* The states pickle can serialize.
Picklable == { d \in Payloads : pickle_dump(d).ok }

\* A checksum that is the checksum of no model.
OtherChecksum == "d41d8cd98f00b204e9800998ecf8427e"

\* The checksums written in the cache file: the str that follows the str
\* 'checksum' in its stream.
FileChecksums ==
    IF file = None THEN {}
    ELSE { file[1][i + 1].arg :
             i \in { j \in 1..(Len(file[1]) - 1) :
                       /\ file[1][j] = STR("checksum")
                       /\ file[1][j + 1].op = "S" } }

\* The checksums a caller passes: the checksum of the model as it is, the
\* checksum of the record in the file, and a foreign one.
ChecksumArgs ==
    LET c == _caching_checksum(<<sm_options, training_pts>>) IN
    (IF c.ok THEN {c.checksum} ELSE {}) \cup FileChecksums \cup {OtherChecksum}

checksum_sm ==
    LET r == _caching_checksum_sm(Self) IN
    /\ SetSelf(r.sm)
    /\ ret' = IF r.exc = ""
              THEN [Returned("_caching_checksum_sm", "str")
                       EXCEPT !.checksum = r.checksum]
              ELSE Raised("_caching_checksum_sm", r.exc, "")
    /\ UNCHANGED <<file, calls, saved, writer, reader>>

caching_save(checksum, data) ==
    LET r == _caching_save(checksum, data)
        c == _caching_checksum(<<sm_options, training_pts>>)
    IN  /\ file' = r.content
        /\ ret' = [(IF r.ok THEN Returned("_caching_save", "None")
                    ELSE Raised("_caching_save", "PicklingError", ""))
                      EXCEPT !.checksum = checksum, !.data = Some(data),
                             !.replaced = FileChecksums]
        /\ saved' = IF r.ok /\ c.ok /\ c.checksum = checksum
                    THEN Some([checksum |-> checksum, data |-> data,
                               at |-> Len(calls)])
                    ELSE None
        /\ UNCHANGED <<sm_options, printf_options, training_pts, dim, nt,
                       printer, calls, writer, reader>>

caching_load(checksum) ==
    LET r == _caching_load(file, checksum) IN
    /\ ret' = [(IF r.exc = "" THEN Returned("_caching_load", "tuple")
                ELSE Raised("_caching_load", r.exc, ""))
                  EXCEPT !.checksum = checksum, !.hit = r.hit,
                         !.data = r.data]
    /\ UNCHANGED <<sm_options, printf_options, training_pts, dim, nt,
                   printer, file, calls, saved, writer, reader>>

(***************************************************************************)
(* The calls of train, predict and compute_rms_error.                      *)
(***************************************************************************)
train_call(hook, t) ==
    LET r == train(Self, hook, t) IN
    /\ SetSelf(r.sm)
    /\ ret' = [(IF r.exc = "" THEN Returned("train", "None")
                ELSE Raised("train", r.exc, r.msg)) EXCEPT !.fits = r.fits]
    /\ UNCHANGED <<file, calls, saved, writer, reader>>

predict_call(x, kx, hook, t) ==
    LET r == predict(Self, x, kx, hook, t) IN
    /\ SetSelf(r.sm)
    /\ ret' = [(IF r.exc = "" THEN Returned("predict", "array")
                ELSE Raised("predict", r.exc, r.msg))
                  EXCEPT !.y = r.y, !.evals = r.evals, !.xe = Some(x),
                         !.kx = kx]
    /\ UNCHANGED <<file, calls, saved, writer, reader>>

compute_rms_error_call(xe, ye, kx, hook, t) ==
    LET r == compute_rms_error(Self, xe, ye, kx, hook, t) IN
    /\ SetSelf(r.sm)
    /\ ret' = [(IF r.exc = "" THEN Returned("compute_rms_error", r.val)
                ELSE Raised("compute_rms_error", r.exc, r.msg))
                  EXCEPT !.num = r.num, !.den = r.den, !.evals = r.evals,
                         !.xe = xe, !.ye = ye, !.kx = kx]
    /\ UNCHANGED <<file, calls, saved, writer, reader>>

\* What another program leaves at the cache location: no file, the pickle
\* of a list, a dict without 'data', and a dict whose 'checksum' is no str.
ForeignContents ==
    { None, Some(pickle_dump(PyList(<<0>>)).out),
      Some(pickle_dump(PyDict(<<"checksum">>, <<PyStr(OtherChecksum)>>)).out),
      Some(pickle_dump(PyDict(<<"checksum", "data">>,
                              <<PyList(<<0>>), PyList(<<0>>)>>)).out) }

\* The environment replaces the content of the cache location.
tamper(content) ==
    /\ content # file
    /\ file' = content
    /\ saved' = None
    /\ UNCHANGED <<sm_options, printf_options, training_pts, dim, nt,
                   printer, ret, calls, writer, reader>>

(***************************************************************************)
(* _caching_save and _caching_load as two processes on one file. The file  *)
(* is written and read piece by piece: an opcode of the stream stands for  *)
(* a block of the file, and other processes run between two blocks.        *)
(***************************************************************************)
\* Line 51, open(filename, 'w'): the file is truncated, the record is
\* pickled and waits to be written.
save_open(checksum, data) ==
    LET r == _caching_save(checksum, data) IN
    /\ writer.pc = "idle"
    /\ Cardinality(writer.saves) < MaxSaves
    /\ r.ok
    /\ file' = Some(<<>>)
    /\ writer' = [pc |-> "writing", todo |-> r.content[1],
                  saves |-> writer.saves \cup
                               {[checksum |-> checksum, data |-> data]}]
    /\ UNCHANGED <<sm_options, printf_options, training_pts, dim, nt,
                   printer, ret, calls, saved, reader>>

\* Line 51, pickle.dump: the next block is written at the end of the file.
save_write ==
    /\ writer.pc = "writing"
    /\ writer.todo # <<>>
    /\ file' = Some(Append(file[1], Head(writer.todo)))
    /\ writer' = [writer EXCEPT !.todo = Tail(writer.todo)]
    /\ UNCHANGED <<sm_options, printf_options, training_pts, dim, nt,
                   printer, ret, calls, saved, reader>>

\* Line 51: the record is written, _caching_save returns.
save_close ==
    /\ writer.pc = "writing"
    /\ writer.todo = <<>>
    /\ writer' = [writer EXCEPT !.pc = "idle"]
    /\ UNCHANGED <<sm_options, printf_options, training_pts, dim, nt,
                   printer, file, ret, calls, saved, reader>>

\* The outcome of _caching_load once pickle.load has read the given
\* content, or met the end of the file after it.
load_outcome(content, checksum) ==
    LET r == _caching_load(content, checksum) IN
    [(IF r.exc = "" THEN Returned("_caching_load", "tuple")
      ELSE Raised("_caching_load", r.exc, ""))
        EXCEPT !.checksum = checksum, !.hit = r.hit, !.data = r.data]

\* Line 28, open(filename, 'r'): a missing file ends the call in the
\* except clause, an existing one is read from its start.
load_open(checksum) ==
    /\ reader.pc = "idle"
    /\ IF file = None
       THEN /\ ret' = load_outcome(None, checksum)
            /\ UNCHANGED reader
       ELSE /\ reader' = [pc |-> "reading", checksum |-> checksum,
                          pos |-> 1, buf |-> <<>>]
            /\ UNCHANGED ret
    /\ UNCHANGED <<sm_options, printf_options, training_pts, dim, nt,
                   printer, file, calls, saved, writer>>

\* Line 28, pickle.load: the block at the reader's position is read from
\* the file as it is now; the end of the file, or the STOP opcode, ends
\* the unpickling and lines 29-34 give the outcome.
load_read ==
    /\ reader.pc = "reading"
    /\ IF reader.pos > Len(file[1])
       THEN /\ ret' = load_outcome(Some(reader.buf), reader.checksum)
            /\ reader' = [reader EXCEPT !.pc = "idle"]
       ELSE LET buf == Append(reader.buf, file[1][reader.pos]) IN
            IF file[1][reader.pos] = STOP
            THEN /\ ret' = load_outcome(Some(buf), reader.checksum)
                 /\ reader' = [reader EXCEPT !.pc = "idle", !.buf = buf]
            ELSE /\ reader' = [reader EXCEPT !.pos = reader.pos + 1,
                                             !.buf = buf]
                 /\ UNCHANGED ret
    /\ UNCHANGED <<sm_options, printf_options, training_pts, dim, nt,
                   printer, file, calls, saved, writer>>

(***************************************************************************)
(* SM.__init__                                                             *)
(***************************************************************************)
\* An update that keeps the given keys only.
update_replace(d, o) == o

\* dict.update: the keys of o take o's values, the other keys keep theirs.
update(d, o) ==
    [k \in DOMAIN d \cup DOMAIN o |-> IF k \in DOMAIN o THEN o[k] ELSE d[k]]

\* The defaults _set_default_options of the inheriting class installs.
DefaultSmOptions == [name |-> "LS"]
DefaultPrintfOptions ==
    [global |-> TRUE, problem |-> TRUE, time_train |-> TRUE,
     time_eval |-> TRUE]

\* Printer(): inactive, no time recorded.
NewPrinter == [active |-> FALSE, times |-> <<>>]

\* The sm_options / printf_options arguments of the constructor. The
\* string "<function>" stands for an option value pickle cannot serialize.
SmOptionArgs ==
    {None, Some([xlimits |-> "<function>"]), Some([name |-> "MixExp"])}
PrintfOptionArgs == {None, Some([global |-> FALSE])}

Init ==
    \E smo \in SmOptionArgs, pfo \in PrintfOptionArgs :
        /\ sm_options =
              IF smo # None THEN update(DefaultSmOptions, smo[1])
              ELSE DefaultSmOptions
        /\ printf_options =
              IF pfo # None THEN update(DefaultPrintfOptions, pfo[1])
              ELSE DefaultPrintfOptions
        /\ training_pts = [exact |-> <<>>]
        /\ dim = None
        /\ nt = None
        /\ printer = Some(NewPrinter)
        /\ file = None
        /\ ret = [Returned("__init__", "None")
                     EXCEPT !.sm_arg = smo, !.printf_arg = pfo]
        /\ calls = <<>>
        /\ saved = None
        /\ writer = [pc |-> "idle", todo |-> <<>>, saves |-> {}]
        /\ reader = [pc |-> "idle", checksum |-> "", pos |-> 0, buf |-> <<>>]

\* The calls of a client that fills the store.
NextStore ==
    \E typ \in TypArgs, xt \in XArgs, yt \in YArgs, kx \in KxArgs :
        /\ Len(calls) < MaxCalls
        /\ add_training_pts(typ, xt, yt, kx)

\* This client constructs the model without arguments.
InitStore ==
    /\ Init
    /\ sm_options = DefaultSmOptions
    /\ printf_options = DefaultPrintfOptions

SpecStore == InitStore /\ [][NextStore]_vars

\* The X, Y and derivative index arguments of the clients of the cache and
\* of the error metric.
SmallXArgs == { Array(<<>>, 1), Array(<< <<0>> >>, 1) }
SmallYArgs == { <<>>, <<0>> }
SmallKxArgs == { None, Some(0) }

\* The client of the cache constructs the model with the default
\* reporting options and the default model name.
InitCache ==
    /\ Init
    /\ printf_options = DefaultPrintfOptions
    /\ sm_options["name"] = DefaultSmOptions["name"]

\* The calls of a client of the cache, and the environment of the file.
NextCache ==
    \/ \E xt \in SmallXArgs, yt \in SmallYArgs, kx \in SmallKxArgs :
          /\ Len(calls) < MaxCalls
          /\ add_training_pts("exact", xt, yt, kx)
    \/ checksum_sm
    \/ \E c \in ChecksumArgs, data \in Payloads : caching_save(c, data)
    \/ \E c \in ChecksumArgs : caching_load(c)
    \/ \E content \in ForeignContents : tamper(content)

\* The arguments xe, ye of compute_rms_error: both None, one of them None,
\* or an X and an (ne, 1) array Y of as many rows.
EvalArgs ==
    { <<None, None>> }
    \cup { <<Some(Array(<< <<0>> >>, 1)), None>>,
           <<None, Some(reshape_n1(<<1>>, 1))>>,
           <<Some(Array(<<>>, 1)), Some(reshape_n1(<<>>, 0))>>,
           <<Some(Array(<< <<0>> >>, 1)), Some(reshape_n1(<<1>>, 1))>> }

\* The calls of a client that fills the store, trains and evaluates.
NextError ==
    \/ \E xt \in SmallXArgs, yt \in SmallYArgs, kx \in SmallKxArgs :
          /\ Len(calls) < MaxTrainingCalls
          /\ add_training_pts("exact", xt, yt, kx)
    \/ \E hook \in FitHooks, t \in Elapsed : train_call(hook, t)
    \/ \E x \in SmallXArgs, kx \in SmallKxArgs, hook \in EvalHooks,
          t \in Elapsed : predict_call(x, kx, hook, t)
    \/ \E a \in EvalArgs, kx \in SmallKxArgs, hook \in EvalHooks,
          t \in Elapsed : compute_rms_error_call(a[1], a[2], kx, hook, t)

\* This client constructs the model with the default model options.
InitError == Init /\ sm_options = DefaultSmOptions

SpecError == InitError /\ [][NextError]_vars

SpecCache == InitCache /\ [][NextCache]_vars

\* The calls of a client that fills the store, saves states pickle can
\* serialize at one location, one after the other, and loads from it.
NextSave ==
    \/ \E xt \in SmallXArgs, yt \in SmallYArgs, kx \in SmallKxArgs :
          /\ Len(calls) < MaxTrainingCalls
          /\ add_training_pts("exact", xt, yt, kx)
    \/ \E c \in ChecksumArgs, data \in Picklable : caching_save(c, data)
    \/ \E c \in ChecksumArgs : caching_load(c)

SpecSave == InitCache /\ [][NextSave]_vars

\* The checksums the two processes pass: the checksum of the model and the
\* checksum of another model.
ProcessChecksums ==
    {OtherChecksum} \cup
    (LET c == _caching_checksum(<<sm_options, training_pts>>)
     IN  IF c.ok THEN {c.checksum} ELSE {})

\* A process saves states at the cache location while another process
\* loads from it.
NextConcurrent ==
    \/ \E c \in ProcessChecksums, data \in Payloads : save_open(c, data)
    \/ save_write
    \/ save_close
    \/ \E c \in ProcessChecksums : load_open(c)
    \/ load_read

SpecConcurrent == InitStore /\ [][NextConcurrent]_vars

\* The calls of a client of the whole interface, and the environment of
\* the file. This client evaluates at one X of one row with the default
\* derivative index, computes the error metric in its two modes, saves a
\* state pickle can serialize and one it cannot, and its timed blocks
\* measure the same elapsed time.
OneX == Array(<< <<0>> >>, 1)
BothModes == { <<None, None>>, <<Some(OneX), Some(reshape_n1(<<1>>, 1))>> }
Next ==
    \/ \E xt \in SmallXArgs, yt \in SmallYArgs, kx \in SmallKxArgs :
          /\ Len(calls) < MaxTrainingCalls
          /\ add_training_pts("exact", xt, yt, kx)
    \/ \E hook \in FitHooks : train_call(hook, 1)
    \/ \E hook \in EvalHooks : predict_call(OneX, None, hook, 1)
    \/ \E a \in BothModes, hook \in EvalHooks :
          compute_rms_error_call(a[1], a[2], None, hook, 1)
    \/ checksum_sm
    \/ \E c \in ChecksumArgs, data \in {PyList(<<0>>), PyFunction} :
          caching_save(c, data)
    \/ \E c \in ChecksumArgs : caching_load(c)
    \/ tamper(None)

Spec == Init /\ [][Next]_vars

(***************************************************************************)
(* The properties.                                                         *)
(***************************************************************************)
\* The key the documentation gives a derivative index: 0 for None, k + 1
\* for k.
KeyOf(kx) == IF kx = None THEN 0 ELSE kx[1] + 1

\* The calls, in order, that inserted at a key of 'exact'.
CallsAt(key) ==
    SelectSeq(calls, LAMBDA c : c.typ = "exact" /\ KeyOf(c.kx) = key)

ModelChecksum == _caching_checksum(<<sm_options, training_pts>>)

\* C1: under every key the stored X rows are the X arguments inserted at
\* that key, concatenated in call order, and the stored Y rows are the
\* matching Y arguments in the same order; so X and Y have as many rows,
\* the sum of the rows inserted at the key. A key nothing was inserted at
\* is absent.
C1_AppendAccumulates ==
    \A key \in 0..(MaxKx + 1) :
        LET mine == CallsAt(key)
            pts == training_pts["exact"]
            RECURSIVE rows(_)
            rows(i) == IF i = 0 THEN 0 ELSE mine[i].xt.shape[1] + rows(i - 1)
        IN  IF mine = <<>> THEN key \notin DOMAIN pts
            ELSE /\ key \in DOMAIN pts
                 /\ pts[key][1].data =
                       Flatten([i \in 1..Len(mine) |-> mine[i].xt.data])
                 /\ pts[key][2].data =
                       Flatten([i \in 1..Len(mine) |->
                                  [j \in 1..Len(mine[i].yt) |->
                                      <<mine[i].yt[j]>>]])
                 /\ pts[key][1].shape[1] = rows(Len(mine))
                 /\ pts[key][2].shape[1] = rows(Len(mine))
                 /\ Len(pts[key][1].data) = Len(pts[key][2].data)

\* Two calls, each with a row, inserted at one key.
C1_Witness ==
    \E key \in 0..(MaxKx + 1) :
        /\ Len(CallsAt(key)) = 2
        /\ \A i \in 1..2 : CallsAt(key)[i].xt.shape[1] = 1
        /\ CallsAt(key)[1].xt # CallsAt(key)[2].xt
        /\ training_pts["exact"][key][1].shape[1] = 2

\* C2: a successful add_training_pts with derivative index None stores at
\* key 0 and with derivative index k at key k + 1, and leaves the X and Y
\* of every other key as they were.
C2_DisjointKeys ==
    [][Len(calls') > Len(calls) =>
          LET c == calls'[Len(calls')]
              key == KeyOf(c.kx)
              old == training_pts[c.typ]
              new == training_pts'[c.typ]
          IN  /\ DOMAIN new = DOMAIN old \cup {key}
              /\ \A k \in DOMAIN old \ {key} : new[k] = old[k]
              /\ new[key][1].shape[1] =
                   c.xt.shape[1] +
                   (IF key \in DOMAIN old THEN old[key][1].shape[1] ELSE 0)
       ]_vars

\* Values and derivatives w.r.t. input 0 are both stored, with different
\* data, at keys 0 and 1.
C2_Witness ==
    /\ Len(calls) = 2
    /\ calls[1].kx = Some(0)
    /\ calls[2].kx = None
    /\ calls[1].xt # calls[2].xt
    /\ DOMAIN training_pts["exact"] = {0, 1}

\* C3: a load with the checksum of the model, after a save of that
\* checksum and a state, with no change of the options or the training
\* data and no other write of the file since, returns (True, state).
C3_RoundTrip ==
    ( /\ ret.op = "_caching_load"
      /\ saved # None
      /\ ModelChecksum.ok
      /\ ret.checksum = ModelChecksum.checksum ) =>
    ( saved[1].at = Len(calls) =>
         /\ ret.exc = ""
         /\ ret.hit
         /\ ret.data = Some(saved[1].data) )

\* A load hit after training points were added and a two-element state
\* was saved.
C3_Witness ==
    /\ ret.op = "_caching_load"
    /\ ret.hit
    /\ ret.data = Some(PyList(<<1, 0>>))
    /\ saved # None
    /\ saved[1].at = Len(calls)
    /\ Len(calls) > 0
    /\ ModelChecksum.ok
    /\ ret.checksum = ModelChecksum.checksum

\* Some call after the save added a row.
RowsAddedSinceSave ==
    /\ saved # None
    /\ \E i \in (saved[1].at + 1)..Len(calls) : calls[i].xt.shape[1] >= 1

\* C4: once add_training_pts has added a row after a save of the model's
\* checksum, the checksum of the model differs from the saved one, and a
\* load with the new checksum on the record saved before returns
\* (False, None).
C4_Invalidation ==
    RowsAddedSinceSave =>
        /\ ModelChecksum.ok
        /\ ModelChecksum.checksum # saved[1].checksum
        /\ ( ret.op = "_caching_load"
             /\ ret.checksum = ModelChecksum.checksum ) =>
           ( ret.exc = "" /\ ~ret.hit /\ ret.data = None )

\* A load with the new checksum missed on the record saved before a row
\* was added.
C4_Witness ==
    /\ RowsAddedSinceSave
    /\ ret.op = "_caching_load"
    /\ ret.checksum = ModelChecksum.checksum
    /\ ~ret.hit
    /\ FileChecksums = {saved[1].checksum}

\* The record of a checksum and a state, as it is written.
Record(checksum, data) ==
    Some(pickle_dump(PyDict(<<"checksum", "data">>,
                            <<PyStr(checksum), data>>)).out)

\* C5: load returns (True, payload) exactly when the file holds a whole
\* record whose checksum is the expected one; for a missing file, a
\* corrupt or foreign content, or a record of another checksum it returns
\* (False, None). It never raises.
C5_LoadHitsExactly ==
    /\ \A e \in ChecksumArgs :
          LET r == _caching_load(file, e) IN
          /\ r.exc = ""
          /\ IF \E d \in Picklable : file = Record(e, d)
             THEN r.hit /\ \E d \in Picklable :
                              file = Record(e, d) /\ r.data = Some(d)
             ELSE ~r.hit /\ r.data = None
    /\ ret.op = "_caching_load" => ret.exc = ""

\* A load missed on a file cut short by a failed save, and on no file.
C5_Witness ==
    /\ ret.op = "_caching_load"
    /\ ~ret.hit
    /\ file # None
    /\ ~pickle_load(file[1]).ok
    /\ ret.checksum \in FileChecksums

\* Reporting states of a model: its reporting option 'global', and its
\* printer as construction, predict and train leave it.
Reportings ==
    { [global |-> TRUE, printer |-> Some(NewPrinter)],
      [global |-> FALSE,
       printer |-> Some(set_time(NewPrinter, "prediction", 1))],
      [global |-> TRUE,
       printer |-> Some([active |-> TRUE,
                         times |-> set_time(set_time(NewPrinter, "", 2),
                                            "prediction", 1).times])],
      [global |-> TRUE,
       printer |-> Some([active |-> TRUE,
                         times |-> set_time(set_time(NewPrinter, "", 1),
                                            "prediction", 2).times])] }

\* The model with another reporting state.
WithReporting(sm, r) ==
    [sm EXCEPT !.printer = r.printer, !.printf_options["global"] = r.global]

\* C6: the checksum of the model is the same whatever its printer and its
\* reporting options are: models of equal options and training data have
\* equal checksums.
C6_ReportingExcluded ==
    LET mine == _caching_checksum_sm(Self) IN
    \A r \in Reportings :
        LET other == _caching_checksum_sm(WithReporting(Self, r)) IN
        /\ other.checksum = mine.checksum
        /\ other.exc = mine.exc

\* The checksum of a model with training points was computed.
C6_Witness ==
    /\ ret.op = "_caching_checksum_sm"
    /\ ret.exc = ""
    /\ Len(calls) > 0
    /\ \E r \in Reportings :
          /\ r.printer # printer
          /\ _caching_checksum_sm(WithReporting(Self, r)).checksum =
                ret.checksum

\* C7: every call of _caching_checksum_sm, returning or raising, leaves
\* the printer, the options and the training data as they were, the
\* printer attached.
C7_HashingLeavesModel ==
    [][ret'.op = "_caching_checksum_sm" =>
          /\ printer' = printer
          /\ printer' # None
          /\ sm_options' = sm_options
          /\ training_pts' = training_pts
       ]_vars

\* C8: compute_rms_error with exactly one of xe, ye given raises, and
\* calls neither predict nor evaluate.
C8_PartialRejected ==
    ( ret.op = "compute_rms_error" /\ ((ret.xe = None) # (ret.ye = None)) )
    => ( ret.exc # "" /\ ret.evals = <<>> )

\* C9: compute_rms_error with xe and ye None and an integer kx predicts at
\* the X stored under key kx + 1 with derivative index kx (evaluate is
\* called with key kx + 1) when that key holds data, and raises the
\* missing-data error when it does not.
C9_SelfCheckDerivative ==
    ( /\ ret.op = "compute_rms_error"
      /\ ret.xe = None /\ ret.ye = None /\ ret.kx # None ) =>
    LET key == KeyOf(ret.kx)
        pts == training_pts["exact"]
    IN  IF key \in DOMAIN pts
        THEN ret.evals = << [x |-> pts[key][1], kx |-> key] >>
        ELSE /\ ret.exc = "ValueError"
             /\ ret.msg = "no training point data"

\* C10: compute_rms_error() on a model no training point was added to
\* raises the missing-data error and does not call predict or evaluate.
C10_MissingData ==
    ( /\ ret.op = "compute_rms_error"
      /\ ret.xe = None /\ ret.ye = None /\ ret.kx = None
      /\ calls = <<>> ) =>
    ( /\ ret.exc = "ValueError"
      /\ ret.msg = "no training point data"
      /\ ret.evals = <<>> )

\* compute_rms_error() was called on a fresh model and raised.
C10_Witness ==
    /\ ret.op = "compute_rms_error"
    /\ ret.xe = None /\ ret.ye = None /\ ret.kx = None
    /\ calls = <<>>
    /\ ret.exc = "ValueError"

\* A run of train returned: the printer holds the time of its block.
TrainReturned == printer # None /\ "" \in DOMAIN printer[1].times

\* C11: train() on a model without data at key 0 of 'exact' raises the
\* missing-data error and does not call fit; on a model with data at key 0
\* it calls fit once, and returns or raises the error of fit.
C11_TrainNeedsData ==
    ret.op = "train" =>
        IF 0 \notin DOMAIN training_pts["exact"]
        THEN /\ ret.exc = "ValueError"
             /\ ret.msg = "no training point data"
             /\ ret.fits = 0
        ELSE /\ ret.fits = 1
             /\ ret.exc \in {"", "AlgorithmError"}

\* C12: on a model with a row at key 0 that was trained, the self-check
\* compute_rms_error() and compute_rms_error(xe, ye) return an error
\* value, and call evaluate once, with key 0, on the stored X and on xe,
\* unless evaluate itself raises.
C12_Lifecycle ==
    ( /\ ret.op = "compute_rms_error"
      /\ (ret.xe = None) = (ret.ye = None)
      /\ ret.kx = None
      /\ TrainReturned
      /\ 0 \in DOMAIN training_pts["exact"]
      /\ training_pts["exact"][0][1].shape[1] >= 1 ) =>
    LET x == IF ret.xe = None THEN training_pts["exact"][0][1]
             ELSE ret.xe[1]
    IN  /\ ret.evals = << [x |-> x, kx |-> 0] >>
        /\ ret.exc # "AlgorithmError" =>
              ret.exc = "" /\ ret.val = "float"

\* C13: predict(x, kx) calls evaluate once, with key 0 for kx None and
\* key k + 1 for the integer k, and returns an array of as many rows as x
\* has, unless evaluate itself raises.
C13_PredictOutputs ==
    ret.op = "predict" =>
        /\ ret.evals = << [x |-> ret.xe[1], kx |-> KeyOf(ret.kx)] >>
        /\ ret.exc # "AlgorithmError" =>
              /\ ret.exc = ""
              /\ ret.y # None
              /\ ret.y[1].shape = <<ret.xe[1].shape[1], 1>>

\* C15: once dim is set, by the first insertion of values, no call of
\* add_training_pts changes it.
C15_DimInvariant == [][dim # None => dim' = dim]_vars

\* C20: a call of add_training_pts that raises leaves training_pts as it
\* was: no key is created, no X is extended.
C20_FailingAddLeavesStore ==
    [][(ret'.op = "add_training_pts" /\ ret'.exc # "") =>
          training_pts' = training_pts]_vars

\* A call with an X of another column count than the X stored at its key
\* has raised.
C20_Witness ==
    /\ ret.op = "add_training_pts"
    /\ ret.exc = "ValueError"
    /\ ret.msg = "vstack"
    /\ Len(calls) = 1
    /\ calls[1].xt.shape[1] = 1
    /\ training_pts["exact"] # <<>>

\* C17: a save that returns replaces the record of the file: right after
\* save(c, d) a load with e returns (True, d) when e = c and (False, None)
\* for every other e, the checksum of the record that was replaced
\* included.
C17_SaveOverwrites ==
    [][( /\ ret'.op = "_caching_save"
         /\ ret'.exc = ""
         /\ caching_save(ret'.checksum, ret'.data[1]) ) =>
          LET c == ret'.checksum
              d == ret'.data[1]
          IN  \A e \in ChecksumArgs \cup {c} :
                 LET r == _caching_load(file', e) IN
                 /\ r.exc = ""
                 /\ r.hit <=> e = c
                 /\ r.data = IF e = c THEN Some(d) ELSE None
       ]_vars

\* A save has replaced the record of another checksum and another state.
C17_Witness ==
    /\ ret.op = "_caching_save"
    /\ ret.exc = ""
    /\ ret.replaced # {}
    /\ ret.checksum \notin ret.replaced
    /\ file = Record(ret.checksum, ret.data[1])
    /\ ret.data = Some(PyList(<<1, 0>>))

\* C18: a call of save, returning or raising, leaves in the file the whole
\* new record or what the file held before the call.
C18_AtomicSave ==
    [][\A c \in ChecksumArgs, d \in Payloads :
          caching_save(c, d) =>
             \/ pickle_dump(d).ok /\ file' = Record(c, d)
             \/ file' = file
       ]_vars

\* The option record the constructor is to build from the defaults and
\* the argument: every key of the argument with the argument's value,
\* every other key of the defaults with its default.
Merged(options, defaults, arg) ==
    LET given == IF arg = None THEN {} ELSE DOMAIN arg[1] IN
    /\ DOMAIN options = DOMAIN defaults \cup given
    /\ \A k \in given : options[k] = arg[1][k]
    /\ \A k \in DOMAIN defaults \ given : options[k] = defaults[k]

\* C14: the constructor leaves in sm_options the defaults overridden by
\* its sm_options argument and in printf_options the defaults overridden
\* by its printf_options argument; neither record depends on the other
\* argument.
C14_OptionsMerged ==
    ret.op = "__init__" =>
        /\ Merged(sm_options, DefaultSmOptions, ret.sm_arg)
        /\ Merged(printf_options, DefaultPrintfOptions, ret.printf_arg)

\* The constructor was given a model name and a reporting toggle that
\* differ from the defaults.
C14_Witness ==
    /\ ret.op = "__init__"
    /\ ret.sm_arg = Some([name |-> "MixExp"])
    /\ ret.printf_arg = Some([global |-> FALSE])
    /\ sm_options["name"] = "MixExp"
    /\ printf_options["time_train"]

\* C19: training_pts changes only in a successful add_training_pts, and in
\* every step every key stays, with its X and Y rows kept in place and
\* rows added at the end only.
C19_StoreOnlyGrows ==
    [][/\ training_pts' # training_pts => Len(calls') = Len(calls) + 1
       /\ \A typ \in DOMAIN training_pts :
             /\ typ \in DOMAIN training_pts'
             /\ \A key \in DOMAIN training_pts[typ] :
                   /\ key \in DOMAIN training_pts'[typ]
                   /\ \A i \in 1..2 :
                         LET old == training_pts[typ][key][i].data
                             new == training_pts'[typ][key][i].data
                         IN  /\ Len(new) >= Len(old)
                             /\ SubSeq(new, 1, Len(old)) = old
      ]_vars

\* Every operation has run on a model that holds a row: the model was
\* trained and evaluated, and its checksum computed, saved and loaded.
C19_Witness ==
    /\ Len(calls) = 1
    /\ 0 \in DOMAIN training_pts["exact"]
    /\ training_pts["exact"][0][1].shape[1] = 1
    /\ printer # None
    /\ DOMAIN printer[1].times = {"", "prediction"}
    /\ saved # None
    /\ ret.op = "_caching_load"
    /\ ret.hit

\* C16: a load that runs while another process saves at the same location
\* never raises, and what it returns is (False, None) or (True, data) with
\* data the whole state of a save call whose checksum is the expected one.
C16_NoTornHit ==
    ret.op = "_caching_load" =>
        /\ ret.exc = ""
        /\ IF ret.hit
           THEN \E s \in writer.saves :
                   /\ s.checksum = ret.checksum
                   /\ ret.data = Some(s.data)
           ELSE ret.data = None
====
